---------------------------- MODULE Spec2Model ----------------------------
(***************************************************************************)
(* Model of gmx_trading_bot.py: the paper-trading position state machine   *)
(* (PaperTradingBot), the position sizer and the signal decision rule      *)
(* (strategy_decision) on indicator series built by compute_indicators,    *)
(* the GMX connectors, the polling loop (main_loop) and the /status route. *)
(*                                                                         *)
(* Numbers.  The program computes in Python floats; the model computes in  *)
(* exact fixed point.  Prices are whole dollars.  A position size is a     *)
(* multiple of 1/SizeUnit (the result of round(size, 4)), so a size s of   *)
(* the program is the integer s * SizeUnit here, and balance, a sum of     *)
(* price * size products, is held in the same 1/SizeUnit dollars.          *)
(* The SMA of a series is held as the sum of its window (SMA_PERIOD times  *)
(* the mean), so that the comparison Close > SMA stays exact.              *)
(***************************************************************************)
EXTENDS Integers, Sequences, FiniteSets, TLC

VARIABLES
    bot,        \* the PaperTradingBot instance: a record of its fields
    df_med,     \* the medium-timeframe frame the decision rule last read
    df_short,   \* the short-timeframe frame the decision rule last read
    signal,     \* the value strategy_decision last returned
    call,       \* the last call made on the program: its name, arguments
                \* and the bot as it was when the call was made
    log_lines,  \* the lines the last call passed to log_message, in order
    opens,      \* how many open_position calls were accepted so far
    config,     \* LIVE_TRADING, GMX_VERSION and whether web3 was imported
    gmx,        \* the connector main_loop built, or none
    pc,         \* where main_loop stands in its cycle
    cycles,     \* how many cycles main_loop has begun
    status_data,\* the dictionary the /status route copies
    status_logs,\* the deque of recent log lines the /status route copies
    cycle,      \* what the current cycle has done so far, and the state it
                \* started from
    reader,     \* a /status request in progress, and what it has read
    published   \* every pair of status_data and status_logs that stood at
                \* the end of a cycle, or before the first one

loopvars == <<config, gmx, pc, cycles, status_data, status_logs, cycle, reader,
              published>>

vars == <<bot, df_med, df_short, signal, call, log_lines, opens,
          config, gmx, pc, cycles, status_data, status_logs, cycle, reader,
          published>>

---------------------------------------------------------------------------
(* BOT CONFIG *)

RSI_OVERSOLD == 50
RSI_OVERBOUGHT == 50
SMA_PERIOD == 5
RSI_PERIOD == 14
STARTING_BALANCE == 10000
RISK_PER_TRADE_PCT == 1
PAPER_LEVERAGE_FACTOR == 10

\* round(size, 4): sizes are multiples of 1/10000
SizeUnit == 10000

---------------------------------------------------------------------------
(* Bounds of the model *)

\* accepted open_position calls in one behaviour of the call harness
MaxOpens == 2
\* rows of a fetched candle series
MaxCandles == 14

\* arguments the harness passes to the bot
Sides == {"long", "short"}
EntryPrices == {100}
StopPrices == {94, 95, 100, 105, 600}
TargetPrices == {95, 105}
TickPrices == {94, 95, 100, 105, 106}

\* closes of fetched candles, and readings of the momentum oscillator
CandlePrices == {100, 105}
RsiValues == {0, 49, 50, 51, 100}

---------------------------------------------------------------------------
(* PaperTradingBot *)

Abs(x) == IF x < 0 THEN 0 - x ELSE x

\* round(n / d) for d > 0: to the nearest integer, a tie to the even one
RoundHalfEven(n, d) ==
    LET q == n \div d
        r == n % d
    IN  IF 2 * r < d THEN q
        ELSE IF 2 * r > d THEN q + 1
        ELSE IF q % 2 = 0 THEN q ELSE q + 1

PaperTradingBot(starting_balance, risk_pct) ==
    [ balance         |-> starting_balance * SizeUnit,
      risk_pct        |-> risk_pct,
      position_active |-> FALSE,
      position_side   |-> "none",
      entry_price     |-> 0,
      position_size   |-> 0,
      stop_loss       |-> 0,
      take_profit     |-> 0 ]

RECURSIVE GCD(_, _)
GCD(a, b) == IF b = 0 THEN a ELSE GCD(b, a % b)

\* risk_amount = balance * (risk_pct / 100) * PAPER_LEVERAGE_FACTOR, kept as
\* a fraction: balance times risk_pct * PAPER_LEVERAGE_FACTOR over 100, in
\* lowest terms so that the product stays within TLC's integers; the result
\* is in 1/SizeUnit like balance
calculate_position_size_unlevered(b, stop_distance) ==
    IF stop_distance <= 0 THEN 0
    ELSE RoundHalfEven(b.balance * b.risk_pct, 100 * stop_distance)

calculate_position_size_min_distance(b, stop_distance) ==
    LET pct == b.risk_pct * PAPER_LEVERAGE_FACTOR
        g == GCD(pct, 100)
    IN  RoundHalfEven(b.balance * (pct \div g),
                      (100 \div g) * (IF stop_distance <= 0 THEN 1 ELSE stop_distance))

calculate_position_size(b, stop_distance) ==
    LET pct == b.risk_pct * PAPER_LEVERAGE_FACTOR
        g == GCD(pct, 100)
    IN  IF stop_distance <= 0 THEN 0
        ELSE RoundHalfEven(b.balance * (pct \div g), (100 \div g) * stop_distance)

Opened_reserving_margin(b, side, entry_price, stop_loss, take_profit) ==
    [ b EXCEPT !.position_active = TRUE,
               !.position_side   = side,
               !.entry_price     = entry_price,
               !.stop_loss       = stop_loss,
               !.take_profit     = take_profit,
               !.position_size   =
                   calculate_position_size(b, Abs(entry_price - stop_loss)),
               !.balance         = @ - @ \div 100 ]

\* Each operation yields the bot after the call and the lines it logged.
Opened(b, side, entry_price, stop_loss, take_profit) ==
    [ b EXCEPT !.position_active = TRUE,
               !.position_side   = side,
               !.entry_price     = entry_price,
               !.stop_loss       = stop_loss,
               !.take_profit     = take_profit,
               !.position_size   =
                   calculate_position_size(b, Abs(entry_price - stop_loss)) ]

open_position_unguarded(b, side, entry_price, stop_loss, take_profit) ==
    [ bot  |-> Opened(b, side, entry_price, stop_loss, take_profit),
      logs |-> <<"trade_open">> ]

open_position(b, side, entry_price, stop_loss, take_profit) ==
    IF b.position_active
    THEN [ bot |-> b, logs |-> <<"already_in_position">> ]
    ELSE [ bot  |-> Opened(b, side, entry_price, stop_loss, take_profit),
           logs |-> <<"trade_open">> ]

Profit(b, close_price) ==
    IF b.position_side = "long"
    THEN (close_price - b.entry_price) * b.position_size
    ELSE (b.entry_price - close_price) * b.position_size

CloseLine(hit_stop) == IF hit_stop THEN "trade_close_stop" ELSE "trade_close_tp"

Reset(b) ==
    [ b EXCEPT !.position_active = FALSE,
               !.position_side   = "none",
               !.entry_price     = 0,
               !.position_size   = 0,
               !.stop_loss       = 0,
               !.take_profit     = 0 ]

close_position_flag_only(b, close_price, hit_stop) ==
    [ bot  |-> [ b EXCEPT !.balance = @ + Profit(b, close_price),
                          !.position_active = FALSE ],
      logs |-> <<CloseLine(hit_stop)>> ]

close_position_keeps_levels(b, close_price, hit_stop) ==
    IF ~b.position_active
    THEN [ bot |-> b, logs |-> <<>> ]
    ELSE [ bot  |-> [ b EXCEPT !.balance = @ + Profit(b, close_price),
                               !.position_active = FALSE,
                               !.position_side   = "none",
                               !.entry_price     = 0,
                               !.position_size   = 0 ],
           logs |-> <<CloseLine(hit_stop)>> ]

close_position_long_only(b, close_price, hit_stop) ==
    IF ~b.position_active
    THEN [ bot |-> b, logs |-> <<>> ]
    ELSE [ bot  |-> Reset([ b EXCEPT !.balance =
                       @ + (close_price - b.entry_price) * b.position_size ]),
           logs |-> <<CloseLine(hit_stop)>> ]

close_position(b, close_price, hit_stop) ==
    IF ~b.position_active
    THEN [ bot |-> b, logs |-> <<>> ]
    ELSE [ bot  |-> Reset([ b EXCEPT !.balance = @ + Profit(b, close_price) ]),
           logs |-> <<CloseLine(hit_stop)>> ]

\* check_exit logs the trigger and then calls close_position
Exit(b, line, current_price, hit_stop) ==
    LET c == close_position(b, current_price, hit_stop)
    IN  [ bot |-> c.bot, logs |-> <<line>> \o c.logs ]

check_exit_take_profit_first(b, current_price) ==
    IF ~b.position_active THEN [ bot |-> b, logs |-> <<>> ]
    ELSE IF b.position_side = "long" THEN
        IF current_price >= b.take_profit
        THEN Exit(b, "long_take_profit", current_price, FALSE)
        ELSE IF current_price <= b.stop_loss
        THEN Exit(b, "long_stop", current_price, TRUE)
        ELSE [ bot |-> b, logs |-> <<>> ]
    ELSE IF b.position_side = "short" THEN
        IF current_price <= b.take_profit
        THEN Exit(b, "short_take_profit", current_price, FALSE)
        ELSE IF current_price >= b.stop_loss
        THEN Exit(b, "short_stop", current_price, TRUE)
        ELSE [ bot |-> b, logs |-> <<>> ]
    ELSE [ bot |-> b, logs |-> <<>> ]

check_exit_short_as_long(b, current_price) ==
    IF ~b.position_active THEN [ bot |-> b, logs |-> <<>> ]
    ELSE IF current_price <= b.stop_loss
    THEN Exit(b, "long_stop", current_price, TRUE)
    ELSE IF current_price >= b.take_profit
    THEN Exit(b, "long_take_profit", current_price, FALSE)
    ELSE [ bot |-> b, logs |-> <<>> ]

check_exit_at_level(b, current_price) ==
    IF ~b.position_active THEN [ bot |-> b, logs |-> <<>> ]
    ELSE IF b.position_side = "long" THEN
        IF current_price <= b.stop_loss
        THEN Exit(b, "long_stop", b.stop_loss, TRUE)
        ELSE IF current_price >= b.take_profit
        THEN Exit(b, "long_take_profit", b.take_profit, FALSE)
        ELSE [ bot |-> b, logs |-> <<>> ]
    ELSE IF b.position_side = "short" THEN
        IF current_price >= b.stop_loss
        THEN Exit(b, "short_stop", b.stop_loss, TRUE)
        ELSE IF current_price <= b.take_profit
        THEN Exit(b, "short_take_profit", b.take_profit, FALSE)
        ELSE [ bot |-> b, logs |-> <<>> ]
    ELSE [ bot |-> b, logs |-> <<>> ]

check_exit(b, current_price) ==
    IF ~b.position_active THEN [ bot |-> b, logs |-> <<>> ]
    ELSE IF b.position_side = "long" THEN
        IF current_price <= b.stop_loss
        THEN Exit(b, "long_stop", current_price, TRUE)
        ELSE IF current_price >= b.take_profit
        THEN Exit(b, "long_take_profit", current_price, FALSE)
        ELSE [ bot |-> b, logs |-> <<>> ]
    ELSE IF b.position_side = "short" THEN
        IF current_price >= b.stop_loss
        THEN Exit(b, "short_stop", current_price, TRUE)
        ELSE IF current_price <= b.take_profit
        THEN Exit(b, "short_take_profit", current_price, FALSE)
        ELSE [ bot |-> b, logs |-> <<>> ]
    ELSE [ bot |-> b, logs |-> <<>> ]

---------------------------------------------------------------------------
(* Candle series and indicators *)

\* pd.isna: the undefined value of an indicator column
NaN == -1
IsNa(x) == x = NaN

Min(a, b) == IF a < b THEN a ELSE b

RECURSIVE SumSeq(_)
SumSeq(s) == IF s = <<>> THEN 0 ELSE Head(s) + SumSeq(Tail(s))

\* A frame is its number of rows (len) and the closes of its last rows, as
\* many as the trend window reads (closes); after compute_indicators it also
\* has the SMA and RSI of its last row.  fetch_binance_candles returns the
\* rows sorted by time, or the empty frame when the request fails.
EmptyFrame == [ len |-> 0, closes |-> <<>>, SMA |-> NaN, RSI |-> NaN ]

Frame(n, closes) == [ len |-> n, closes |-> closes, SMA |-> NaN, RSI |-> NaN ]

fetch_binance_candles ==
    { EmptyFrame } \cup
    UNION { { Frame(n, c) : c \in [1..Min(n, SMA_PERIOD) -> CandlePrices] } :
            n \in 1..MaxCandles }

Close(df) == df.closes[Len(df.closes)]

\* ta's SMAIndicator is a rolling mean with min_periods = window, and its
\* RSIIndicator an exponential mean with min_periods = window: both are NaN
\* on the first window - 1 rows.  The RSI of the last row depends on every
\* row of the series; rsi is the reading the library gives for it.
compute_indicators_short_window(df, rsi) ==
    IF df.len = 0 THEN df
    ELSE [ df EXCEPT !.SMA = (SumSeq(df.closes) * SMA_PERIOD) \div Len(df.closes),
                     !.RSI = IF df.len >= RSI_PERIOD THEN rsi ELSE NaN ]

compute_indicators(df, rsi) ==
    IF df.len = 0 THEN df
    ELSE [ df EXCEPT !.SMA = IF df.len >= SMA_PERIOD THEN SumSeq(df.closes) ELSE NaN,
                     !.RSI = IF df.len >= RSI_PERIOD THEN rsi ELSE NaN ]

---------------------------------------------------------------------------
(* STRATEGY *)

\* SMA is the window sum: Close > SMA / SMA_PERIOD
MediumTrend(last_med) ==
    IF Close(last_med) * SMA_PERIOD > last_med.SMA THEN "UP" ELSE "DOWN"

Decide(medium_trend, rsi_value) ==
    IF medium_trend = "UP" /\ rsi_value < RSI_OVERSOLD
    THEN [ ret |-> "BUY", logs |-> <<"signal_buy">> ]
    ELSE IF medium_trend = "DOWN" /\ rsi_value > RSI_OVERBOUGHT
    THEN [ ret |-> "SELL", logs |-> <<"signal_sell">> ]
    ELSE [ ret |-> "NONE", logs |-> <<"signal_none">> ]

Silent == [ ret |-> "NONE", logs |-> <<>> ]

strategy_decision_tie_up(med, short, b) ==
    IF med.len = 0 \/ short.len = 0 THEN Silent
    ELSE IF IsNa(med.SMA) THEN Silent
    ELSE IF IsNa(short.RSI) THEN Silent
    ELSE IF b.position_active THEN Silent
    ELSE Decide(IF Close(med) * SMA_PERIOD >= med.SMA THEN "UP" ELSE "DOWN",
                short.RSI)

strategy_decision_any_trend(med, short, b) ==
    IF med.len = 0 \/ short.len = 0 THEN Silent
    ELSE IF IsNa(med.SMA) THEN Silent
    ELSE IF IsNa(short.RSI) THEN Silent
    ELSE IF b.position_active THEN Silent
    ELSE IF short.RSI < RSI_OVERSOLD
    THEN [ ret |-> "BUY", logs |-> <<"signal_buy">> ]
    ELSE IF short.RSI > RSI_OVERBOUGHT
    THEN [ ret |-> "SELL", logs |-> <<"signal_sell">> ]
    ELSE [ ret |-> "NONE", logs |-> <<"signal_none">> ]

strategy_decision_ignoring_position(med, short, b) ==
    IF med.len = 0 \/ short.len = 0 THEN Silent
    ELSE IF IsNa(med.SMA) THEN Silent
    ELSE IF IsNa(short.RSI) THEN Silent
    ELSE Decide(MediumTrend(med), short.RSI)

strategy_decision(med, short, b) ==
    IF med.len = 0 \/ short.len = 0 THEN Silent
    ELSE IF IsNa(med.SMA) THEN Silent
    ELSE IF IsNa(short.RSI) THEN Silent
    ELSE IF b.position_active THEN Silent
    ELSE Decide(MediumTrend(med), short.RSI)

---------------------------------------------------------------------------
(* FLASK + GLOBAL STATUS *)

LOG_MAXLEN == 50

\* status_logs.append on a deque with maxlen: the oldest line falls out
log_message(logs, msg) ==
    IF Len(logs) < LOG_MAXLEN THEN Append(logs, msg)
    ELSE Append(Tail(logs), msg)

RECURSIVE LogAll(_, _)
LogAll(logs, msgs) ==
    IF msgs = <<>> THEN logs
    ELSE LogAll(log_message(logs, Head(msgs)), Tail(msgs))

\* the module-level dictionary.  balance and sma are in cents (the result
\* of round(x, 2)), eth_price in dollars, rsi as read
StatusData0 ==
    [ balance |-> 0, position |-> "NONE", eth_price |-> 0, sma |-> 0,
      rsi |-> 0, last_action |-> "NONE" ]

\* round(bot.balance, 2), in cents
RoundedBalance(b) == RoundHalfEven(b.balance, SizeUnit \div 100)

\* the status() route: two reads, one after the other
StatusResponse(data, logs) == [ data |-> data, logs |-> logs ]

---------------------------------------------------------------------------
(* WEB3 SETUP and GMX CONNECTOR *)

\* A configuration is the LIVE_TRADING flag, the GMX_VERSION of the
\* environment and whether "from web3 import ..." succeeds.
DefaultConfig ==
    [ LIVE_TRADING |-> FALSE, GMX_VERSION |-> "v1", web3_installed |-> TRUE ]

\* Without LIVE_TRADING the web3 object is None whether or not the import
\* succeeds, and only the import-error line differs: those configurations
\* are taken with web3 installed.
Configs ==
    { cfg \in [ LIVE_TRADING : BOOLEAN, GMX_VERSION : {"v1", "v2"},
                web3_installed : BOOLEAN ] :
          cfg.LIVE_TRADING \/ cfg.web3_installed }

\* the module-level web3 object: None unless imported and LIVE_TRADING
Web3Global(cfg) == cfg.web3_installed /\ cfg.LIVE_TRADING

Web3SetupLogs(cfg) ==
    IF ~cfg.web3_installed THEN <<"web3_import_error">>
    ELSE IF cfg.LIVE_TRADING THEN <<"web3_connection", "trading_account">>
    ELSE <<>>

NoConnector == [ kind |-> "none", do_live |-> FALSE, web3 |-> FALSE ]

\* GMXConnector.__init__ reads the name USDT_ABI, which the module does not
\* define, when it has a web3 object to build its contracts with: the constructor
\* raises NameError
GMXConnector(web3, do_live) ==
    IF web3 /\ do_live
    THEN [ raised |-> "NameError", obj |-> NoConnector ]
    ELSE [ raised |-> "none",
           obj |-> [ kind |-> "v1", do_live |-> do_live, web3 |-> web3 ] ]

GMXV2Connector(web3, do_live) ==
    [ raised |-> "none",
      obj |-> [ kind |-> "v2", do_live |-> do_live, web3 |-> web3 ] ]

\* main_loop builds the connector inside try / except NameError
BuildConnector(cfg) ==
    LET r == IF cfg.GMX_VERSION = "v2"
             THEN GMXV2Connector(Web3Global(cfg), cfg.LIVE_TRADING)
             ELSE GMXConnector(Web3Global(cfg), cfg.LIVE_TRADING)
    IN  IF r.raised = "NameError" THEN NoConnector ELSE r.obj

\* The one-time approvals.  Each yields the lines logged and whether an
\* exception left the method.  Without a web3 object the calls fail on None;
\* approve_plugin then evaluates "except exceptions.ContractLogicError",
\* and the name exceptions is unbound when the import failed.
approve_plugin(g, cfg) ==
    IF ~g.do_live THEN [ raised |-> FALSE, logs |-> <<"simulate_approve_plugin">> ]
    ELSE IF ~cfg.web3_installed THEN [ raised |-> TRUE, logs |-> <<>> ]
    ELSE [ raised |-> FALSE, logs |-> <<"plugin_approval_error">> ]

approve_usdt(g) ==
    IF ~g.do_live THEN [ raised |-> FALSE, logs |-> <<"simulate_approve_usdt">> ]
    ELSE [ raised |-> FALSE, logs |-> <<"usdt_approval_error">> ]

\* sent is whether the network accepted the transaction
approve_collateral(g, sent) ==
    IF ~g.do_live THEN [ raised |-> FALSE, logs |-> <<"simulate_approve_collateral">> ]
    ELSE IF g.web3 /\ sent
    THEN [ raised |-> FALSE, logs |-> <<"collateral_approved">> ]
    ELSE [ raised |-> FALSE, logs |-> <<"collateral_approval_error">> ]

\* GMXConnector.open_gmx_position: the position router is None (or, with
\* POSITION_ROUTER_ABI empty, has no minExecutionFee), so the fee lookup
\* fails and the method returns from its except branch
open_gmx_position_v1(g, side) ==
    IF ~g.do_live
    THEN [ outcome |-> "simulated", raised |-> FALSE, logs |-> <<"simulate_gmx_open">> ]
    ELSE [ outcome |-> "error", raised |-> FALSE, logs |-> <<"min_execution_fee_error">> ]

open_gmx_position_v2_uncaught(g, side, sent) ==
    IF ~g.do_live
    THEN [ outcome |-> "simulated", raised |-> FALSE, logs |-> <<"simulate_gmxv2_open">> ]
    ELSE IF g.web3 /\ sent
    THEN [ outcome |-> "sent", raised |-> FALSE, logs |-> <<"gmxv2_tx_sent">> ]
    ELSE [ outcome |-> "error", raised |-> TRUE, logs |-> <<>> ]

open_gmx_position_v2_ignoring_do_live(g, side, sent) ==
    IF g.web3 /\ sent
    THEN [ outcome |-> "sent", raised |-> FALSE, logs |-> <<"gmxv2_tx_sent">> ]
    ELSE [ outcome |-> "error", raised |-> FALSE, logs |-> <<"gmxv2_trade_error">> ]

\* GMXV2Connector.open_gmx_position: everything after the do_live test is
\* inside try / except Exception
open_gmx_position_v2(g, side, sent) ==
    IF ~g.do_live
    THEN [ outcome |-> "simulated", raised |-> FALSE, logs |-> <<"simulate_gmxv2_open">> ]
    ELSE IF g.web3 /\ sent
    THEN [ outcome |-> "sent", raised |-> FALSE, logs |-> <<"gmxv2_tx_sent">> ]
    ELSE [ outcome |-> "error", raised |-> FALSE, logs |-> <<"gmxv2_trade_error">> ]

open_gmx_position(g, side, sent) ==
    IF g.kind = "v2" THEN open_gmx_position_v2(g, side, sent)
    ELSE open_gmx_position_v1(g, side)

\* "LIVE_TRADING and gmx and gmx.do_live"
DispatchesLive(cfg, g) == cfg.LIVE_TRADING /\ g.kind # "none" /\ g.do_live

---------------------------------------------------------------------------
(* The state of the module once it is imported, before main_loop runs *)

NoDispatch == [ side |-> "none", outcome |-> "none" ]

\* what a cycle has done so far: the calls it made (ran), whether it was
\* skipped, the order it handed to the connector, and the bot, status_data
\* and status_logs it started from
CycleAt(b, data, logs) ==
    [ active_at_start |-> b.position_active,
      ran             |-> {},
      skipped         |-> FALSE,
      dispatch        |-> NoDispatch,
      start_bot       |-> b,
      start_data      |-> data,
      start_logs      |-> logs ]

Reader0 == [ at |-> "idle", data |-> StatusData0, logs |-> <<>> ]

ModuleLoaded(cfg) ==
    /\ config = cfg
    /\ gmx = NoConnector
    /\ pc = "start"
    /\ cycles = 0
    /\ status_data = StatusData0
    /\ status_logs = Web3SetupLogs(cfg)
    /\ cycle = CycleAt(PaperTradingBot(STARTING_BALANCE, RISK_PER_TRADE_PCT),
                       StatusData0, Web3SetupLogs(cfg))
    /\ reader = Reader0
    /\ published = { StatusResponse(StatusData0, Web3SetupLogs(cfg)) }

---------------------------------------------------------------------------
(* The call harness: any sequence of calls on one bot *)

NoArgs == [ side |-> "none", price |-> 0, stop_loss |-> 0, take_profit |-> 0,
            hit_stop |-> FALSE ]

Called(op, args, pre) ==
    [ op |-> op, side |-> args.side, price |-> args.price,
      stop_loss |-> args.stop_loss, take_profit |-> args.take_profit,
      hit_stop |-> args.hit_stop, pre |-> pre ]

Bot0 == PaperTradingBot(STARTING_BALANCE, RISK_PER_TRADE_PCT)

Init ==
    /\ bot = Bot0
    /\ df_med = EmptyFrame
    /\ df_short = EmptyFrame
    /\ signal = "NONE"
    /\ call = Called("init", NoArgs, Bot0)
    /\ log_lines = <<>>
    /\ opens = 0
    /\ ModuleLoaded(DefaultConfig)

OpenPosition ==
    \E side \in Sides, entry_price \in EntryPrices,
       stop_loss \in StopPrices, take_profit \in TargetPrices :
        LET r == open_position(bot, side, entry_price, stop_loss, take_profit)
        IN  /\ bot.position_active \/ opens < MaxOpens
            /\ bot' = r.bot
            /\ log_lines' = r.logs
            /\ opens' = IF bot.position_active THEN opens ELSE opens + 1
            /\ call' = Called("open_position",
                              [ NoArgs EXCEPT !.side = side, !.price = entry_price,
                                              !.stop_loss = stop_loss,
                                              !.take_profit = take_profit ],
                              bot)
            /\ UNCHANGED <<df_med, df_short, signal>>
            /\ UNCHANGED loopvars

CheckExit ==
    \E current_price \in TickPrices :
        LET r == check_exit(bot, current_price)
        IN  /\ bot' = r.bot
            /\ log_lines' = r.logs
            /\ call' = Called("check_exit", [ NoArgs EXCEPT !.price = current_price ], bot)
            /\ UNCHANGED <<df_med, df_short, signal, opens>>
            /\ UNCHANGED loopvars

ClosePosition ==
    \E close_price \in TickPrices, hit_stop \in BOOLEAN :
        LET r == close_position(bot, close_price, hit_stop)
        IN  /\ bot' = r.bot
            /\ log_lines' = r.logs
            /\ call' = Called("close_position",
                              [ NoArgs EXCEPT !.price = close_price,
                                              !.hit_stop = hit_stop ],
                              bot)
            /\ UNCHANGED <<df_med, df_short, signal, opens>>
            /\ UNCHANGED loopvars

Next == OpenPosition \/ CheckExit \/ ClosePosition

Spec == Init /\ [][Next]_vars

---------------------------------------------------------------------------
(* The decision rule on every pair of fetched series, with the bot empty   *)
(* or holding a position it opened                                         *)

Frames == { compute_indicators(df, rsi) : df \in fetch_binance_candles,
                                          rsi \in RsiValues }

HeldBots ==
    { open_position(Bot0, side, 100, stop_loss, 105).bot :
          side \in Sides, stop_loss \in {95} }

InitDecision ==
    /\ bot \in { Bot0 } \cup HeldBots
    /\ df_med \in Frames
    /\ df_short \in Frames
    /\ signal = "NONE"
    /\ call = Called("init", NoArgs, bot)
    /\ log_lines = <<>>
    /\ opens = IF bot.position_active THEN 1 ELSE 0
    /\ ModuleLoaded(DefaultConfig)

StrategyDecision ==
    LET r == strategy_decision(df_med, df_short, bot)
    IN  /\ call.op = "init"
        /\ signal' = r.ret
        /\ log_lines' = r.logs
        /\ call' = Called("strategy_decision", NoArgs, bot)
        /\ UNCHANGED <<bot, df_med, df_short, opens>>
        /\ UNCHANGED loopvars

NextDecision == StrategyDecision

SpecDecision == InitDecision /\ [][NextDecision]_vars

---------------------------------------------------------------------------
(* MAIN LOOP *)

\* cycles main_loop begins in one behaviour
MaxCycles == 2

\* Closes the loop reads.  They are multiples of 200, for which
\* current_price * 0.995 and current_price * 1.005 are whole dollars (the
\* float products are within 1e-12 of them).
LoopCloses == {3800, 4000}
LoopRsi == {49, 51}

\* a series of n rows at close c whose last close is d
Turn(n, c, d) ==
    Frame(n, [ i \in 1..Min(n, SMA_PERIOD) |->
                   IF i = Min(n, SMA_PERIOD) THEN d ELSE c ])

\* what the two requests of a cycle can return: nothing, a series too short
\* for its indicator, or a full series
LoopMedFrames ==
    { EmptyFrame, Turn(SMA_PERIOD - 1, 4000, 4000),
      Turn(SMA_PERIOD, 3800, 4000), Turn(SMA_PERIOD, 4000, 3800) }

LoopShortFrames ==
    { EmptyFrame, Turn(RSI_PERIOD - 1, 4000, 4000) }
        \cup { Turn(RSI_PERIOD, c, c) : c \in LoopCloses }

Scale_mirrored(price, permille) == (price * (2000 - permille)) \div 1000

\* current_price * 0.995 and current_price * 1.005, as per mille
Scale(price, permille) == (price * permille) \div 1000

FetchLine(df) == IF df.len = 0 THEN "fetch_error" ELSE "fetched"

\* "if df_med.empty or df_short.empty"
SkipCycle_short_only(med, short) == short.len = 0

SkipCycle(med, short) == med.len = 0 \/ short.len = 0

Approvals(g, cfg, sent) ==
    IF ~DispatchesLive(cfg, g) THEN [ raised |-> FALSE, logs |-> <<>> ]
    ELSE IF cfg.GMX_VERSION = "v2" THEN approve_collateral(g, sent)
    ELSE LET p == approve_plugin(g, cfg)
             u == approve_usdt(g)
         IN  IF p.raised THEN p
             ELSE [ raised |-> u.raised, logs |-> p.logs \o u.logs ]

\* status_data.update(...) at the end of a cycle
StatusUpdate(data, b, med, short, sig) ==
    [ balance     |-> RoundedBalance(b),
      position    |-> IF b.position_side = "none" THEN "NONE" ELSE b.position_side,
      eth_price   |-> Close(short),
      sma         |-> IF IsNa(med.SMA) THEN NaN ELSE (med.SMA * 100) \div SMA_PERIOD,
      rsi         |-> short.RSI,
      last_action |-> IF sig # "NONE" THEN sig ELSE data.last_action ]

Step(op, price, side, pre) ==
    Called(op, [ NoArgs EXCEPT !.price = price, !.side = side ], pre)

InitLoop ==
    /\ bot = Bot0
    /\ df_med = EmptyFrame
    /\ df_short = EmptyFrame
    /\ signal = "NONE"
    /\ call = Called("init", NoArgs, Bot0)
    /\ log_lines = <<>>
    /\ opens = 0
    /\ \E cfg \in Configs : ModuleLoaded(cfg)

\* main_loop up to its while: the bot, the connector, the first status and
\* the one-time approvals.  An exception here ends the thread.
Start ==
    \E sent \in BOOLEAN :
        LET g    == BuildConnector(config)
            b    == PaperTradingBot(STARTING_BALANCE, RISK_PER_TRADE_PCT)
            a    == Approvals(g, config, sent)
            logs == LogAll(status_logs, <<"bot_started", "starting_balance">> \o a.logs)
            data == [ StatusData0 EXCEPT !.balance = RoundedBalance(b) ]
        IN  /\ pc = "start"
            /\ bot' = b
            /\ gmx' = g
            /\ status_data' = data
            /\ status_logs' = logs
            /\ log_lines' = a.logs
            /\ call' = Step("start", 0, "none", bot)
            /\ pc' = IF a.raised THEN "dead" ELSE "fetch"
            /\ cycle' = CycleAt(b, data, logs)
            /\ published' = IF a.raised THEN published
                            ELSE published \cup { StatusResponse(data, logs) }
            /\ UNCHANGED <<df_med, df_short, signal, opens, config, cycles, reader>>

\* the head of a cycle: both requests, the test for an empty series (a
\* skipped cycle sleeps and goes back to the head) and compute_indicators
FetchCandles(meds, shorts) ==
    \E med \in meds, short \in shorts, rsi \in LoopRsi :
        LET logs == LogAll(status_logs,
                           <<"new_cycle", FetchLine(med), FetchLine(short)>>)
            c    == CycleAt(bot, status_data, status_logs)
        IN  /\ pc = "fetch"
            /\ cycles < MaxCycles
            /\ cycles' = cycles + 1
            /\ call' = Step("fetch", 0, "none", bot)
            /\ log_lines' = <<>>
            /\ IF SkipCycle(med, short)
               THEN /\ df_med' = med
                    /\ df_short' = short
                    /\ status_logs' = log_message(logs, "skip_cycle")
                    /\ cycle' = [ c EXCEPT !.skipped = TRUE ]
                    /\ pc' = "fetch"
                    /\ published' = published \cup
                           { StatusResponse(status_data, status_logs') }
               ELSE /\ df_med' = compute_indicators(med, RSI_OVERSOLD)
                    /\ df_short' = compute_indicators(short, rsi)
                    /\ status_logs' = LogAll(logs, <<"computing_indicators",
                                                     "computing_indicators">>)
                    /\ cycle' = c
                    /\ pc' = "exit_check"
                    /\ UNCHANGED published
            /\ UNCHANGED <<bot, signal, opens, config, gmx, status_data, reader>>

\* "if bot.position_active: bot.check_exit(current_price)"
ExitCheck ==
    LET current_price == Close(df_short)
        r == check_exit(bot, current_price)
    IN  /\ pc = "exit_check"
        /\ pc' = "decide"
        /\ IF bot.position_active
           THEN /\ bot' = r.bot
                /\ log_lines' = r.logs
                /\ status_logs' = LogAll(status_logs, r.logs)
                /\ call' = Step("check_exit", current_price, "none", bot)
                /\ cycle' = [ cycle EXCEPT !.ran = @ \cup {"check_exit"} ]
           ELSE /\ call' = Step("no_exit_check", current_price, "none", bot)
                /\ log_lines' = <<>>
                /\ UNCHANGED <<bot, status_logs, cycle>>
        /\ UNCHANGED <<df_med, df_short, signal, opens, config, gmx, cycles,
                       status_data, reader, published>>

\* "signal = strategy_decision(df_med, df_short, bot)"
Decision ==
    LET r == strategy_decision(df_med, df_short, bot)
    IN  /\ pc = "decide"
        /\ signal' = r.ret
        /\ log_lines' = r.logs
        /\ status_logs' = LogAll(status_logs, r.logs)
        /\ call' = Step("strategy_decision", 0, "none", bot)
        /\ cycle' = [ cycle EXCEPT !.ran = @ \cup {"strategy_decision"} ]
        /\ pc' = IF r.ret \in {"BUY", "SELL"} THEN "open" ELSE "status"
        /\ UNCHANGED <<bot, df_med, df_short, opens, config, gmx, cycles,
                       status_data, reader, published>>

SignalSide(sig) == IF sig = "BUY" THEN "long" ELSE "short"

\* the paper trade of a BUY or SELL branch
Open ==
    LET current_price == Close(df_short)
        side        == SignalSide(signal)
        stop_loss   == Scale(current_price, IF signal = "BUY" THEN 995 ELSE 1005)
        take_profit == Scale(current_price, IF signal = "BUY" THEN 1005 ELSE 995)
        r == open_position(bot, side, current_price, stop_loss, take_profit)
    IN  /\ pc = "open"
        /\ bot' = r.bot
        /\ log_lines' = r.logs
        /\ status_logs' = LogAll(status_logs, r.logs)
        /\ opens' = IF bot.position_active THEN opens ELSE opens + 1
        /\ call' = Called("open_position",
                          [ NoArgs EXCEPT !.side = side, !.price = current_price,
                                          !.stop_loss = stop_loss,
                                          !.take_profit = take_profit ],
                          bot)
        /\ cycle' = [ cycle EXCEPT !.ran = @ \cup {"open_position"} ]
        /\ pc' = IF DispatchesLive(config, gmx) THEN "dispatch" ELSE "status"
        /\ UNCHANGED <<df_med, df_short, signal, config, gmx, cycles,
                       status_data, reader, published>>

Dispatch_rolling_back ==
    \E sent \in BOOLEAN :
        LET side == SignalSide(signal)
            r == open_gmx_position(gmx, side, sent)
        IN  /\ pc = "dispatch"
            /\ bot' = IF r.outcome = "error" THEN cycle.start_bot ELSE bot
            /\ log_lines' = r.logs
            /\ status_logs' = LogAll(status_logs, r.logs)
            /\ call' = Step("open_gmx_position", 0, side, bot)
            /\ cycle' = [ cycle EXCEPT !.ran = @ \cup {"open_gmx_position"},
                                       !.dispatch = [ side |-> side,
                                                      outcome |-> r.outcome ] ]
            /\ pc' = "status"
            /\ UNCHANGED <<df_med, df_short, signal, opens, config, gmx,
                           cycles, status_data, reader, published>>

\* "gmx.open_gmx_position(side, collateral, size_usd)" of the same branch;
\* an exception leaving it would leave main_loop too
Dispatch ==
    \E sent \in BOOLEAN :
        LET side == SignalSide(signal)
            r == open_gmx_position(gmx, side, sent)
        IN  /\ pc = "dispatch"
            /\ log_lines' = r.logs
            /\ status_logs' = LogAll(status_logs, r.logs)
            /\ call' = Step("open_gmx_position", 0, side, bot)
            /\ cycle' = [ cycle EXCEPT !.ran = @ \cup {"open_gmx_position"},
                                       !.dispatch = [ side |-> side,
                                                      outcome |-> r.outcome ] ]
            /\ pc' = IF r.raised THEN "dead" ELSE "status"
            /\ UNCHANGED <<bot, df_med, df_short, signal, opens, config, gmx,
                           cycles, status_data, reader, published>>

\* the tail of a cycle: the status update, the closing log line, the sleep
UpdateStatus ==
    LET data == StatusUpdate(status_data, bot, df_med, df_short, signal)
        logs == log_message(status_logs, "cycle_complete")
    IN  /\ pc = "status"
        /\ status_data' = data
        /\ status_logs' = logs
        /\ log_lines' = <<"cycle_complete">>
        /\ call' = Step("update_status", Close(df_short), "none", bot)
        /\ published' = published \cup { StatusResponse(data, logs) }
        /\ pc' = "fetch"
        /\ UNCHANGED <<bot, df_med, df_short, signal, opens, config, gmx,
                       cycles, cycle, reader>>

NextLoop ==
    \/ Start
    \/ FetchCandles(LoopMedFrames, LoopShortFrames)
    \/ ExitCheck
    \/ Decision
    \/ Open
    \/ Dispatch
    \/ UpdateStatus

SpecLoop == InitLoop /\ [][NextLoop]_vars

\* main_loop is the only thread of the engine: it takes its next step
SpecLoopFair == SpecLoop /\ WF_vars(NextLoop)

---------------------------------------------------------------------------
(* The /status route, served by Flask's thread while main_loop runs *)

\* "data = dict(status_data)"
StatusReadData ==
    /\ reader.at \in {"idle", "returned"}
    /\ reader' = [ at |-> "data_read", data |-> status_data, logs |-> <<>> ]
    /\ UNCHANGED <<bot, df_med, df_short, signal, call, log_lines, opens,
                   config, gmx, pc, cycles, status_data, status_logs, cycle,
                   published>>

\* "data["logs"] = list(status_logs)" and the return
StatusReadLogs ==
    /\ reader.at = "data_read"
    /\ reader' = [ reader EXCEPT !.at = "returned", !.logs = status_logs ]
    /\ UNCHANGED <<bot, df_med, df_short, signal, call, log_lines, opens,
                   config, gmx, pc, cycles, status_data, status_logs, cycle,
                   published>>

StatusMedFrames == { EmptyFrame, Turn(SMA_PERIOD, 3800, 4000) }
StatusShortFrames == { EmptyFrame, Turn(RSI_PERIOD, 4000, 4000) }

\* the default configuration, LIVE_TRADING unset: main_loop never reaches
\* the dispatch of an order
InitStatus ==
    /\ bot = Bot0
    /\ df_med = EmptyFrame
    /\ df_short = EmptyFrame
    /\ signal = "NONE"
    /\ call = Called("init", NoArgs, Bot0)
    /\ log_lines = <<>>
    /\ opens = 0
    /\ ModuleLoaded(DefaultConfig)

NextStatus ==
    \/ Start
    \/ FetchCandles(StatusMedFrames, StatusShortFrames)
    \/ ExitCheck
    \/ Decision
    \/ Open
    \/ UpdateStatus
    \/ StatusReadData
    \/ StatusReadLogs

SpecStatus == InitStatus /\ [][NextStatus]_vars

---------------------------------------------------------------------------
(* Properties of the position state machine, checked under Spec *)

\* C1: open_position called while a position is active changes nothing:
\* balance and every position field are after the call what they were
\* before it, whatever the arguments.
C1_OpenWhileActiveChangesNothing ==
    (call.op = "open_position" /\ call.pre.position_active) => bot = call.pre

C1_SecondOpenRejected ==
    /\ call.op = "open_position"
    /\ call.pre.position_active
    /\ bot.position_active
    /\ call.side # bot.position_side
    /\ call.stop_loss # bot.stop_loss
    /\ call.take_profit # bot.take_profit

\* C2: close_position and check_exit called while no position is active
\* leave balance and every position field as they were, for any price.
C2_CloseAndCheckOnEmptyAreNoOps ==
    (call.op \in {"close_position", "check_exit"} /\ ~call.pre.position_active)
        => bot = call.pre

C2_CloseAfterProfitableClose ==
    /\ call.op = "close_position"
    /\ ~call.pre.position_active
    /\ call.price # 100
    /\ bot.balance > Bot0.balance

\* C3: whenever no position is active the side is none and entry_price,
\* stop_loss, take_profit and position_size are all zero.
C3_InactiveIsReset ==
    ~bot.position_active =>
        /\ bot.position_side = "none"
        /\ bot.entry_price = 0
        /\ bot.stop_loss = 0
        /\ bot.take_profit = 0
        /\ bot.position_size = 0

C3_ClosedAfterOpen ==
    /\ call.op \in {"close_position", "check_exit"}
    /\ call.pre.position_active
    /\ call.pre.stop_loss > 0
    /\ ~bot.position_active

\* C4: close_position on an active position adds (close_price - entry_price)
\* * size to balance for a long and (entry_price - close_price) * size for a
\* short, and leaves the position empty.
C4_ClosePnL ==
    (call.op = "close_position" /\ call.pre.position_active) =>
        /\ call.pre.position_side = "long" =>
              bot.balance = call.pre.balance
                  + (call.price - call.pre.entry_price) * call.pre.position_size
        /\ call.pre.position_side = "short" =>
              bot.balance = call.pre.balance
                  + (call.pre.entry_price - call.price) * call.pre.position_size
        /\ ~bot.position_active
        /\ bot.position_side = "none"
        /\ bot.position_size = 0

\* short at 100, size 2, closed at 95: balance rises by 10
C4_ShortRoundTrip ==
    /\ call.op = "close_position"
    /\ call.pre.position_active
    /\ call.pre.position_side = "short"
    /\ call.pre.entry_price = 100
    /\ call.pre.position_size = 2 * SizeUnit
    /\ call.price = 95
    /\ bot.balance = call.pre.balance + 10 * SizeUnit

\* C5: check_exit on an active long closes the position iff current_price
\* <= stop_loss or current_price >= take_profit, on an active short iff
\* current_price >= stop_loss or current_price <= take_profit; otherwise the
\* call changes nothing and the position stays active.
C5_CheckExitTriggers ==
    (call.op = "check_exit" /\ call.pre.position_active) =>
        LET p == call.pre
            trigger ==
                IF p.position_side = "long"
                THEN call.price <= p.stop_loss \/ call.price >= p.take_profit
                ELSE call.price >= p.stop_loss \/ call.price <= p.take_profit
        IN  /\ trigger => ~bot.position_active
            /\ ~trigger => bot = p /\ bot.position_active

C5_ShortTakeProfitExit ==
    /\ call.op = "check_exit"
    /\ call.pre.position_active
    /\ call.pre.position_side = "short"
    /\ call.price <= call.pre.take_profit
    /\ call.price < call.pre.stop_loss
    /\ ~bot.position_active

\* C6: in one check_exit call at most one exit fires and the stop check
\* comes first: when the stop condition holds the position is closed once,
\* as a stop exit, even if the take-profit condition holds too, and balance
\* moves by one PnL amount.
C6_StopFirstOneExit ==
    (call.op = "check_exit" /\ call.pre.position_active) =>
        LET p == call.pre
            stop == IF p.position_side = "long"
                    THEN call.price <= p.stop_loss
                    ELSE call.price >= p.stop_loss
            closes == { i \in DOMAIN log_lines :
                          log_lines[i] \in {"trade_close_stop", "trade_close_tp"} }
            pnl == IF p.position_side = "long"
                   THEN (call.price - p.entry_price) * p.position_size
                   ELSE (p.entry_price - call.price) * p.position_size
        IN  /\ Cardinality(closes) <= 1
            /\ bot.balance \in {p.balance, p.balance + pnl}
            /\ stop => /\ Cardinality(closes) = 1
                       /\ \A i \in closes : log_lines[i] = "trade_close_stop"
                       /\ bot.balance = p.balance + pnl

\* both conditions hold for the price, and the exit is the stop
C6_StopWinsOverTakeProfit ==
    /\ call.op = "check_exit"
    /\ call.pre.position_active
    /\ call.pre.position_side = "long"
    /\ call.pre.position_size > 0
    /\ call.price <= call.pre.stop_loss
    /\ call.price >= call.pre.take_profit
    /\ call.price # call.pre.entry_price
    /\ log_lines = <<"long_stop", "trade_close_stop">>

\* C10: open_position from the empty state marks the position active,
\* stores side, entry_price, stop_loss and take_profit as given and leaves
\* balance alone; size is 0 when |entry_price - stop_loss| <= 0 and otherwise
\* balance * risk_pct / 100 * leverage / |entry_price - stop_loss| rounded to
\* 4 decimals, from the balance at the open (10000 at distance 5 with the
\* configured leverage of 10: 200.0000).
C10_OpenStoresAndSizes ==
    (call.op = "open_position" /\ ~call.pre.position_active) =>
        LET dist == IF call.price >= call.stop_loss
                    THEN call.price - call.stop_loss
                    ELSE call.stop_loss - call.price
            risk100 == call.pre.balance * call.pre.risk_pct * PAPER_LEVERAGE_FACTOR
            err == bot.position_size * 100 * dist - risk100
        IN  /\ bot.position_active
            /\ bot.position_side = call.side
            /\ bot.entry_price = call.price
            /\ bot.stop_loss = call.stop_loss
            /\ bot.take_profit = call.take_profit
            /\ bot.balance = call.pre.balance
            /\ dist <= 0 => bot.position_size = 0
            /\ dist > 0 => 2 * err <= 100 * dist /\ 2 * err >= 0 - 100 * dist
            /\ (call.pre.balance = 10000 * SizeUnit /\ dist = 5)
                   => bot.position_size = 200 * SizeUnit

C10_SizedOpenAfterTrade ==
    /\ call.op = "open_position"
    /\ ~call.pre.position_active
    /\ call.pre.balance # Bot0.balance
    /\ bot.position_size > 0
    /\ (bot.position_size * 100 * Abs(call.price - call.stop_loss))
           # call.pre.balance * call.pre.risk_pct * PAPER_LEVERAGE_FACTOR

---------------------------------------------------------------------------
(* Properties of the decision rule, checked under SpecDecision *)

\* C7: with both series non-empty, the latest trend and momentum values
\* defined and no position active, strategy_decision returns BUY iff the
\* medium close is above the trend value and momentum is below the oversold
\* threshold, SELL iff the medium close is at or below the trend value and
\* momentum is above the overbought threshold, and NONE otherwise.
C7_DecisionRule ==
    ( /\ call.op = "strategy_decision"
      /\ df_med.len > 0 /\ df_short.len > 0
      /\ ~IsNa(df_med.SMA) /\ ~IsNa(df_short.RSI)
      /\ ~bot.position_active ) =>
        LET above == Close(df_med) * SMA_PERIOD > df_med.SMA
            buy == above /\ df_short.RSI < RSI_OVERSOLD
            sell == ~above /\ df_short.RSI > RSI_OVERBOUGHT
        IN  /\ signal = "BUY" <=> buy
            /\ signal = "SELL" <=> sell
            /\ signal = "NONE" <=> (~buy /\ ~sell)

\* a close equal to the trend value counts as a downtrend
C7_TieSells ==
    /\ call.op = "strategy_decision"
    /\ df_med.len >= SMA_PERIOD
    /\ Close(df_med) * SMA_PERIOD = df_med.SMA
    /\ ~IsNa(df_short.RSI)
    /\ df_short.RSI > RSI_OVERBOUGHT
    /\ ~bot.position_active
    /\ signal = "SELL"

\* C8: strategy_decision returns NONE whenever a series is empty, the latest
\* trend or momentum value is undefined, as it is for every series shorter
\* than its window, or a position is active.
C8_NoneWithoutInputs ==
    ( /\ call.op = "strategy_decision"
      /\ \/ df_med.len = 0
         \/ df_short.len = 0
         \/ df_med.len < SMA_PERIOD
         \/ df_short.len < RSI_PERIOD
         \/ IsNa(df_med.SMA)
         \/ IsNa(df_short.RSI)
         \/ bot.position_active ) => signal = "NONE"

\* an uptrend read from a full medium series, a short series one row short
C8_ShortSeriesOneRowShort ==
    /\ call.op = "strategy_decision"
    /\ df_med.len >= SMA_PERIOD
    /\ Close(df_med) * SMA_PERIOD > df_med.SMA
    /\ df_short.len = RSI_PERIOD - 1
    /\ ~bot.position_active
    /\ signal = "NONE"

\* C9 as stated: with equal thresholds, defined indicators and no position,
\* every momentum reading other than the threshold gives BUY or SELL,
\* whatever the trend.
C9_EveryReadingActionable ==
    ( /\ call.op = "strategy_decision"
      /\ RSI_OVERSOLD = RSI_OVERBOUGHT
      /\ df_med.len > 0 /\ df_short.len > 0
      /\ ~IsNa(df_med.SMA) /\ ~IsNa(df_short.RSI)
      /\ ~bot.position_active
      /\ df_short.RSI # RSI_OVERSOLD ) => signal \in {"BUY", "SELL"}

\* C9 amended: with equal thresholds, defined indicators and no position, a
\* momentum reading other than the threshold is actionable exactly when it
\* lies on the side that matches the trend: below the threshold in an
\* uptrend (BUY), above it in a downtrend (SELL); a reading above the
\* threshold in an uptrend, below it in a downtrend, or equal to it gives
\* NONE.
C9_ActionableOnTrendSide ==
    ( /\ call.op = "strategy_decision"
      /\ RSI_OVERSOLD = RSI_OVERBOUGHT
      /\ df_med.len > 0 /\ df_short.len > 0
      /\ ~IsNa(df_med.SMA) /\ ~IsNa(df_short.RSI)
      /\ ~bot.position_active ) =>
        LET above == Close(df_med) * SMA_PERIOD > df_med.SMA
            rsi == df_short.RSI
        IN  /\ (above /\ rsi < RSI_OVERSOLD) => signal = "BUY"
            /\ (~above /\ rsi > RSI_OVERBOUGHT) => signal = "SELL"
            /\ (above /\ rsi > RSI_OVERSOLD) => signal = "NONE"
            /\ (~above /\ rsi < RSI_OVERBOUGHT) => signal = "NONE"
            /\ rsi = RSI_OVERSOLD => signal = "NONE"

C9_UptrendAboveThresholdIsNone ==
    /\ call.op = "strategy_decision"
    /\ df_med.len >= SMA_PERIOD
    /\ Close(df_med) * SMA_PERIOD > df_med.SMA
    /\ df_short.len >= RSI_PERIOD
    /\ df_short.RSI > RSI_OVERBOUGHT
    /\ ~bot.position_active
    /\ signal = "NONE"

---------------------------------------------------------------------------
(* Further properties of the position state machine, checked under Spec *)

\* C11: open_position with entry_price = stop_loss is accepted: the
\* position becomes active with size 0; while it is active every further
\* open is rejected; and closing it, at any price, leaves balance as it was.
C11_ZeroDistancePosition ==
    /\ (call.op = "open_position" /\ ~call.pre.position_active
            /\ call.price = call.stop_loss) =>
           /\ bot.position_active
           /\ bot.position_size = 0
           /\ log_lines = <<"trade_open">>
    /\ (call.op = "open_position" /\ call.pre.position_active
            /\ call.pre.entry_price = call.pre.stop_loss) =>
           /\ bot = call.pre
           /\ log_lines = <<"already_in_position">>
    /\ (call.op \in {"close_position", "check_exit"} /\ call.pre.position_active
            /\ call.pre.entry_price = call.pre.stop_loss) =>
           bot.balance = call.pre.balance

\* a zero-distance position closed away from its entry price
C11_ZeroDistanceClosedAwayFromEntry ==
    /\ call.op \in {"close_position", "check_exit"}
    /\ call.pre.position_active
    /\ call.pre.entry_price = call.pre.stop_loss
    /\ call.price # call.pre.entry_price
    /\ ~bot.position_active
    /\ bot.balance = call.pre.balance

\* C16 as stated: every rejected operation (open_position while a position
\* is active, close_position or check_exit while none is) logs a notice.
C16_RejectionsLogANotice ==
    /\ (call.op = "open_position" /\ call.pre.position_active)
           => log_lines # <<>>
    /\ (call.op \in {"close_position", "check_exit"} /\ ~call.pre.position_active)
           => log_lines # <<>>

\* the last call was a check_exit that closed a position of size >= 0
ExitedByCheck ==
    /\ call.op = "check_exit"
    /\ call.pre.position_active
    /\ ~bot.position_active
    /\ call.pre.position_size >= 0

StopExit == log_lines[1] \in {"long_stop", "short_stop"}

\* the sized risk and the sized gain of the position before the call
SizedRisk == call.pre.position_size * Abs(call.pre.entry_price - call.pre.stop_loss)
SizedGain == call.pre.position_size * Abs(call.pre.take_profit - call.pre.entry_price)

\* the stop on the loss side of the entry, the target on the profit side
StopOnLossSide(b) ==
    IF b.position_side = "long" THEN b.stop_loss <= b.entry_price
    ELSE b.stop_loss >= b.entry_price

TargetOnProfitSide(b) ==
    IF b.position_side = "long" THEN b.take_profit >= b.entry_price
    ELSE b.take_profit <= b.entry_price

\* C24 as stated: for any position of size >= 0, a stop exit changes balance
\* by at most minus the sized risk and a take-profit exit by at least the
\* sized gain.
C24_ExitBoundedByLevels ==
    ExitedByCheck =>
        IF StopExit THEN bot.balance - call.pre.balance <= 0 - SizedRisk
        ELSE bot.balance - call.pre.balance >= SizedGain

\* C24 (amended): an exit through check_exit is booked at the observed
\* price; a stop exit of a position whose stop is on the loss side of its
\* entry changes balance by at most minus the sized risk, and a take-profit
\* exit of a position whose target is on the profit side of its entry
\* changes balance by at least the sized gain.
C24_ExitBookedAtObservedPrice ==
    ExitedByCheck =>
        /\ bot.balance - call.pre.balance = Profit(call.pre, call.price)
        /\ (StopExit /\ StopOnLossSide(call.pre)) =>
               bot.balance - call.pre.balance <= 0 - SizedRisk
        /\ (~StopExit /\ TargetOnProfitSide(call.pre)) =>
               bot.balance - call.pre.balance >= SizedGain

C24_StopExitBeyondTheStop ==
    /\ ExitedByCheck
    /\ StopExit
    /\ call.pre.position_side = "long"
    /\ call.pre.stop_loss < call.pre.entry_price
    /\ call.price < call.pre.stop_loss
    /\ call.pre.position_size > 0
    /\ bot.balance - call.pre.balance < 0 - SizedRisk

---------------------------------------------------------------------------
(* Properties of main_loop, checked under SpecLoop *)

\* C12 as stated: a cycle that starts with an active position opens no
\* position, so that a position closed by check_exit in cycle n is followed
\* by a new open no earlier than cycle n+1.
C12_NoOpenInCycleStartedActive ==
    cycle.active_at_start => "open_position" \notin cycle.ran

InCycle == pc \in {"exit_check", "decide", "open", "dispatch", "status"}

C14_NextCycleBegins ==
    /\ [](pc = "dead" => cycles = 0)
    /\ [](InCycle => <>(pc = "fetch"))

C14_StatusStepAfterExitReopenAndFailedDispatch ==
    /\ cycles = MaxCycles
    /\ pc = "status"
    /\ "check_exit" \in cycle.ran
    /\ cycle.dispatch.outcome = "error"

\* C15: in every step of main_loop, balance differs from what it was before
\* the step only if the step is a check_exit that closed an active
\* position; strategy_decision changes no field of the bot.
C15_BalanceChangesOnlyOnClose ==
    /\ bot.balance # call.pre.balance =>
           /\ call.op = "check_exit"
           /\ call.pre.position_active
           /\ ~bot.position_active
    /\ call.op = "strategy_decision" => bot = call.pre

C15_DispatchAfterReopenAtNewBalance ==
    /\ call.op = "open_gmx_position"
    /\ bot.position_active
    /\ bot.balance # STARTING_BALANCE * SizeUnit
    /\ bot.balance = call.pre.balance

\* C17 as stated: while a position is active its entry price, stop and
\* target are positive and its size is positive, or zero with a stop
\* distance that is not positive.
C17_ActivePositionFieldsPositive ==
    bot.position_active =>
        /\ bot.entry_price > 0
        /\ bot.stop_loss > 0
        /\ bot.take_profit > 0
        /\ bot.position_size >= 0
        /\ bot.position_size = 0 => Abs(bot.entry_price - bot.stop_loss) <= 0

\* C18 as stated: with LIVE_TRADING set, a cycle that reaches its status
\* update with a BUY or SELL signal has opened the paper position and has
\* handed the connector an order of the same side.
C18_LiveSignalsForwarded ==
    (config.LIVE_TRADING /\ pc = "status" /\ signal \in {"BUY", "SELL"}) =>
        /\ "open_position" \in cycle.ran
        /\ cycle.dispatch.side = SignalSide(signal)

HasLine(logs, line) == \E i \in DOMAIN logs : logs[i] = line

\* C19: a dispatch that fails logs a line and changes nothing of the bot:
\* the position opened by the cycle stays active with the fields
\* open_position gave it, and main_loop goes on to the status update; after
\* a failed dispatch main_loop is never dead.
C19_DispatchFailureOnlyLogged ==
    /\ (call.op = "open_gmx_position" /\ cycle.dispatch.outcome = "error") =>
           /\ bot = call.pre
           /\ bot.position_active
           /\ bot.position_side = cycle.dispatch.side
           /\ log_lines # <<>>
           /\ pc = "status"
    /\ (HasLine(status_logs, "gmxv2_trade_error")
            \/ HasLine(status_logs, "min_execution_fee_error")) => pc # "dead"

C19_CycleAfterFailedDispatch ==
    /\ cycles = 2
    /\ pc = "decide"
    /\ cycle.active_at_start
    /\ bot.position_active
    /\ HasLine(cycle.start_logs, "gmxv2_trade_error")

\* the lines a connector logs when a transaction went out
SentLines == {"gmxv2_tx_sent", "collateral_approved"}

\* C21: with LIVE_TRADING false main_loop never submits a transaction: no
\* line of a sent transaction is ever logged and no cycle hands an order to
\* the connector; and every method of the connector main_loop built, called
\* with any arguments and whatever the network would answer, only logs its
\* simulation line.
C21_PaperModeSubmitsNothing ==
    ~config.LIVE_TRADING =>
        /\ \A i \in DOMAIN status_logs : status_logs[i] \notin SentLines
        /\ cycle.dispatch = NoDispatch
        /\ pc # "start" =>
            /\ gmx.kind = config.GMX_VERSION
            /\ ~gmx.do_live
            /\ \A side \in Sides, sent \in BOOLEAN :
                /\ open_gmx_position(gmx, side, sent).outcome = "simulated"
                /\ IF gmx.kind = "v2"
                   THEN approve_collateral(gmx, sent).logs
                            = <<"simulate_approve_collateral">>
                   ELSE /\ approve_plugin(gmx, config).logs
                               = <<"simulate_approve_plugin">>
                        /\ approve_usdt(gmx).logs = <<"simulate_approve_usdt">>

C21_PaperCycleWithSignalDone ==
    /\ ~config.LIVE_TRADING
    /\ config.GMX_VERSION = "v2"
    /\ pc = "fetch"
    /\ cycles = MaxCycles
    /\ signal = "SELL"
    /\ "open_position" \in cycle.ran
    /\ bot.position_active

\* C22: main_loop reaches its open_position call only with no position
\* active: every open_position it issues is accepted (the position becomes
\* active and the trade line is logged) and the rejection line of
\* open_position never enters the log.
C22_LoopOpensAreAccepted ==
    /\ pc = "open" => (~bot.position_active /\ signal \in {"BUY", "SELL"})
    /\ call.op = "open_position" =>
           /\ ~call.pre.position_active
           /\ bot.position_active
           /\ bot.position_side = call.side
           /\ log_lines = <<"trade_open">>
    /\ ~HasLine(status_logs, "already_in_position")

C22_ReopenAfterExitAccepted ==
    /\ call.op = "open_position"
    /\ cycle.active_at_start
    /\ "check_exit" \in cycle.ran
    /\ opens = 2
    /\ bot.position_side = "short"

\* the two conditions check_exit tests on a price
StopHit(b, price) ==
    IF b.position_side = "long" THEN price <= b.stop_loss ELSE price >= b.stop_loss

TargetHit(b, price) ==
    IF b.position_side = "long" THEN price >= b.take_profit ELSE price <= b.take_profit

\* prices around the band of the position b
BandPrices(b) ==
    LoopCloses \cup { b.stop_loss - 1, b.stop_loss, b.stop_loss + 1, b.entry_price,
                      b.take_profit - 1, b.take_profit, b.take_profit + 1 }

\* C23: a position main_loop opened at a positive price has its entry
\* strictly between its stop and its target (stop below for a long, above
\* for a short); no price meets its stop condition and its take-profit
\* condition together, and a check_exit at the entry price leaves it open.
C23_EntryInsideExitBand ==
    /\ (bot.position_active /\ bot.entry_price > 0) =>
           /\ IF bot.position_side = "long"
              THEN bot.stop_loss < bot.entry_price /\ bot.entry_price < bot.take_profit
              ELSE bot.take_profit < bot.entry_price /\ bot.entry_price < bot.stop_loss
           /\ \A price \in BandPrices(bot) : ~(StopHit(bot, price) /\ TargetHit(bot, price))
           /\ check_exit(bot, bot.entry_price).bot = bot
    /\ (call.op = "check_exit" /\ call.price = call.pre.entry_price /\ call.price > 0)
           => (bot = call.pre /\ log_lines = <<>>)

C23_ShortHeldAtEntryPrice ==
    /\ call.op = "check_exit"
    /\ call.pre.position_side = "short"
    /\ call.price = call.pre.entry_price
    /\ bot.position_active
    /\ bot.take_profit = 3781
    /\ bot.stop_loss = 3819

---------------------------------------------------------------------------
(* Properties of the status route, checked under SpecStatus *)

\* C20 as stated: the record a status request returns is one that stood at
\* the end of a cycle (or before the first): its fields and its log buffer
\* are those of one completed cycle.
C20_ResponseIsAPublishedSnapshot ==
    reader.at = "returned" =>
        StatusResponse(reader.data, reader.logs) \in published

===========================================================================
